---------------------------- MODULE Spec2Model ----------------------------
(***************************************************************************)
(* A model of hcl2/transformer.py: the DictTransformer that turns a Lark   *)
(* parse tree of an HCL2 document into nested maps and lists.              *)
(*                                                                         *)
(* Representation.                                                         *)
(*   - A Python str is a sequence of one-character strings, so that        *)
(*     startswith / endswith / slicing / split / join act on characters.   *)
(*     The two metadata key names are kept as one symbol each              *)
(*     (<<"__start_line__">>): no other text of the model can spell them.  *)
(*   - A Python value is a record tagged by its type:                      *)
(*       [t |-> "str",  v |-> <<characters>>]                              *)
(*       [t |-> "int",  v |-> n]   [t |-> "bool", v |-> b]                 *)
(*       [t |-> "float", v |-> <<num, den>>]  (a reduced fraction)         *)
(*       [t |-> "none", v |-> 0]                                           *)
(*       [t |-> "list", v |-> <<values>>]                                  *)
(*       [t |-> "dict", v |-> [keys -> values]]   (keys are texts)         *)
(*       [t |-> "attr", key |-> text, value |-> value]  (Attribute tuple)  *)
(*       [t |-> "newline", v |-> 0]  (the "\n" token the parser leaves)    *)
(*   - One transformer callback runs at a time (the walk is synchronous):  *)
(*     rule names the callback, args its children, ret its return value.   *)
(***************************************************************************)
EXTENDS Integers, Sequences, FiniteSets, TLC

VARIABLES
    rule,        \* the callback being run
    with_meta,   \* self.with_meta
    meta,        \* block(): the node's meta (line, end_line)
    tree,        \* the syntax (sub)tree the children were transformed from
    args,        \* the callback's args (children, already transformed)
    pc,          \* "call" | "loop" | "done"
    pos,         \* body(): index of the next child of the for loop
    result,      \* body(): the local dict, a function from keys to values
    attributes,  \* body(): the local set of keys set by an Attribute
    warnings,    \* the logging.warning calls made so far, in order
    ret          \* the value returned ("none" until pc = "done")

vars == <<rule, with_meta, meta, tree, args, pc, pos, result, attributes, warnings, ret>>

---------------------------------------------------------------------------
(* Bounds *)

MaxChildren == 4      \* children of a body
MaxLabels == 2        \* labels of a block (the block type included)
MaxInnerChildren == 2 \* children of a block's body in a whole tree
MaxRootChildren == 2  \* children of the root body in a whole tree
MaxInner == 4         \* characters between the quotes of a string literal
MaxElems == 3         \* children of an object literal
MaxLines == 2         \* lines of a heredoc body
MaxIndent == 2        \* leading blanks of a heredoc line

---------------------------------------------------------------------------
(* Values and text *)

Quote == "\""
START_LINE == <<"__start_line__">>
END_LINE == <<"__end_line__">>

StrV(s) == [t |-> "str", v |-> s]
IntV(n) == [t |-> "int", v |-> n]
BoolV(b) == [t |-> "bool", v |-> b]
FloatV(num, den) == [t |-> "float", v |-> <<num, den>>]   \* the number num / den
None == [t |-> "none", v |-> 0]
ListV(s) == [t |-> "list", v |-> s]
DictV(f) == [t |-> "dict", v |-> f]
Attribute(k, val) == [t |-> "attr", key |-> k, value |-> val]
NewLine == [t |-> "newline", v |-> 0]

NoMeta == [line |-> 0, end_line |-> 0]

EmptyDict == [k \in {} |-> None]

\* d[k] = val on a dict d (a function)
DictSet(d, k, val) == [x \in DOMAIN d \cup {k} |-> IF x = k THEN val ELSE d[x]]

\* d.update(e)
DictUpdate(d, e) == [x \in DOMAIN d \cup DOMAIN e |-> IF x \in DOMAIN e THEN e[x] ELSE d[x]]

startswith_quote(s) == Len(s) > 0 /\ s[1] = Quote
endswith_quote(s) == Len(s) > 0 /\ s[Len(s)] = Quote

\* s[1:-1]
Slice1(s) == SubSeq(s, 2, Len(s) - 1)

\* "".join / concatenation of a sequence of texts
RECURSIVE Concat(_)
Concat(ss) == IF ss = <<>> THEN <<>> ELSE Head(ss) \o Concat(Tail(ss))

\* sep.join(ss)
RECURSIVE Join(_, _)
Join(sep, ss) ==
    IF ss = <<>> THEN <<>>
    ELSE IF Len(ss) = 1 THEN ss[1]
    ELSE ss[1] \o sep \o Join(sep, Tail(ss))

---------------------------------------------------------------------------
(* Helpers of the transformer *)

strip_new_line_tokens(as) == SelectSeq(as, LAMBDA a : a.t # "newline")

\* Mutant: every string is wrapped, a quoted literal too.
to_string_dollar_AlwaysWraps(value) ==
    IF value.t = "str"
    THEN StrV(<<"$", "{">> \o value.v \o <<"}">>)
    ELSE value

to_string_dollar(value) ==
    IF value.t = "str"
    THEN IF startswith_quote(value.v) /\ endswith_quote(value.v)
         THEN StrV(Slice1(value.v))
         ELSE StrV(<<"$", "{">> \o value.v \o <<"}">>)
    ELSE value

strip_quotes(value) ==
    IF value.t = "str" /\ startswith_quote(value.v) /\ endswith_quote(value.v)
    THEN StrV(Slice1(value.v))
    ELSE value

\* str(arg) for the values the reconstruction rules join
Digits == <<"0", "1", "2", "3", "4", "5", "6", "7", "8", "9">>
RECURSIVE IntToText(_)
IntToText(n) == IF n < 10 THEN <<Digits[n + 1]>>
                ELSE IntToText(n \div 10) \o <<Digits[(n % 10) + 1]>>
RECURSIVE TextToInt(_)
TextToInt(s) ==
    IF s = <<>> THEN 0
    ELSE 10 * TextToInt(SubSeq(s, 1, Len(s) - 1))
         + (CHOOSE d \in 0..9 : Digits[d + 1] = s[Len(s)])
ToText(value) ==
    CASE value.t = "str" -> value.v
      [] value.t = "int" -> IntToText(value.v)
      [] value.t = "bool" -> IF value.v THEN <<"T", "r", "u", "e">>
                             ELSE <<"F", "a", "l", "s", "e">>
      [] value.t = "none" -> <<"N", "o", "n", "e">>
TextsOf(as) == [i \in 1..Len(as) |-> ToText(as[i])]

---------------------------------------------------------------------------
(* Literal, postfix and operator rules *)

identifier(as) == StrV(ToText(as[1]))

int_lit(as) == IntV(TextToInt(Concat(TextsOf(as))))

\* float("".join(args)) for a numeral digits "." digits: the number it
\* denotes, as a fraction in lowest terms
RECURSIVE Gcd(_, _)
Gcd(x, y) == IF y = 0 THEN x ELSE Gcd(y, x % y)
RECURSIVE Pow10(_)
Pow10(n) == IF n = 0 THEN 1 ELSE 10 * Pow10(n - 1)
float_lit(as) ==
    LET s == Concat(TextsOf(as))
        dot == CHOOSE i \in 1..Len(s) : s[i] = "."
        num == TextToInt(SubSeq(s, 1, dot - 1) \o SubSeq(s, dot + 1, Len(s)))
        den == Pow10(Len(s) - dot)
        g == Gcd(num, den)
    IN FloatV(num \div g, den \div g)

expr_term(as) ==
    LET a == strip_new_line_tokens(as)
    IN CASE a[1] = StrV(<<"t", "r", "u", "e">>) -> BoolV(TRUE)
         [] a[1] = StrV(<<"f", "a", "l", "s", "e">>) -> BoolV(FALSE)
         [] a[1] = StrV(<<"n", "u", "l", "l">>) -> None
         [] a[1] = StrV(<<"(">>) -> a[2]
         [] OTHER -> a[1]

get_attr(as) == StrV(<<".">> \o ToText(as[1]))

get_attr_expr_term(as) == StrV(ToText(as[1]) \o ToText(as[2]))

binary_operator(as) == StrV(ToText(as[1]))

binary_term(as) == StrV(Join(<<" ">>, TextsOf(strip_new_line_tokens(as))))

binary_op(as) == StrV(Join(<<" ">>, TextsOf(as)))

conditional(as) ==
    LET a == strip_new_line_tokens(as)
    IN StrV(ToText(a[1]) \o <<" ", "?", " ">> \o ToText(a[2])
            \o <<" ", ":", " ">> \o ToText(a[3]))

tuple(as) ==
    LET a == strip_new_line_tokens(as)
    IN ListV([i \in 1..Len(a) |-> to_string_dollar(a[i])])

object_elem(as) ==
    DictV([k \in {strip_quotes(as[1]).v} |-> to_string_dollar(as[2])])

\* Mutant: a key already in the result is kept (first wins).
RECURSIVE object_FirstWins(_)
object_FirstWins(as) ==
    LET a == strip_new_line_tokens(as)
    IN IF a = <<>> THEN DictV(EmptyDict)
       ELSE DictV(DictUpdate(a[Len(a)].v, object_FirstWins(SubSeq(a, 1, Len(a) - 1)).v))

\* result = {}; for arg in args: result.update(arg)
RECURSIVE object(_)
object(as) ==
    LET a == strip_new_line_tokens(as)
    IN IF a = <<>> THEN DictV(EmptyDict)
       ELSE DictV(DictUpdate(object(SubSeq(a, 1, Len(a) - 1)).v, a[Len(a)].v))

---------------------------------------------------------------------------
(* block, attribute *)

\* Mutant: the labels are nested in source order from the inside out.
RECURSIVE NestLabels_InsideOut(_, _)
NestLabels_InsideOut(block_labels, res) ==
    IF block_labels = <<>> THEN res
    ELSE NestLabels_InsideOut(Tail(block_labels),
                    DictV([k \in {strip_quotes(Head(block_labels)).v} |-> res]))

\* for label in reversed(block_labels): result = {strip_quotes(label): result}
RECURSIVE NestLabels(_, _)
NestLabels(block_labels, res) ==
    IF block_labels = <<>> THEN res
    ELSE NestLabels(SubSeq(block_labels, 1, Len(block_labels) - 1),
                    DictV([k \in {strip_quotes(block_labels[Len(block_labels)]).v} |-> res]))

MetaDict(mt) == [k \in {START_LINE, END_LINE} |->
                     IF k = START_LINE THEN IntV(mt.line) ELSE IntV(mt.end_line)]

block(wm, mt, as) ==
    LET block_labels == SubSeq(as, 1, Len(as) - 1)
        block_body == as[Len(as)]
        res == IF wm THEN DictV(DictUpdate(block_body.v, MetaDict(mt)))
               ELSE block_body
    IN NestLabels(block_labels, res)

attribute(as) ==
    LET key == IF startswith_quote(as[1].v) /\ endswith_quote(as[1].v)
               THEN Slice1(as[1].v) ELSE as[1].v
    IN Attribute(key, to_string_dollar(as[2]))

---------------------------------------------------------------------------
(* body: one action per branch of the for loop *)

\* Mutant: a repeated block key replaces the list instead of appending to it.
MergeItems_Overwrite(st, attrs, d, keys) ==
    [st EXCEPT !.result =
        [x \in DOMAIN st.result \cup keys |->
            IF x \in keys
            THEN IF x \in attrs THEN st.result[x] ELSE ListV(<<d[x]>>)
            ELSE st.result[x]]]

\* Mutant: a block entry replaces whatever the key holds when it is no list
\* (the attributes set is not consulted).
MergeItems_BlockOverridesAttribute(st, attrs, d, keys) ==
    [st EXCEPT !.result =
        [x \in DOMAIN st.result \cup keys |->
            IF x \in keys
            THEN IF x \in DOMAIN st.result /\ st.result[x].t = "list" /\ x \notin attrs
                 THEN ListV(Append(st.result[x].v, d[x]))
                 ELSE ListV(<<d[x]>>)
            ELSE st.result[x]]]

\* The else branch: for key, value in arg.items(): ...
\* st is [result, warnings]; attrs the attributes set (not changed here).
RECURSIVE MergeItems(_, _, _, _)
MergeItems(st, attrs, d, keys) ==
    IF keys = {} THEN st
    ELSE LET key == CHOOSE k \in keys : TRUE
             nxt == IF key \in DOMAIN st.result
                    THEN IF key \in attrs
                         THEN [st EXCEPT !.warnings =
                                 Append(@, [where |-> "block", key |-> key])]
                         ELSE [st EXCEPT !.result =
                                 DictSet(@, key, ListV(Append(st.result[key].v, d[key])))]
                    ELSE [st EXCEPT !.result = DictSet(@, key, ListV(<<d[key]>>))]
         IN MergeItems(nxt, attrs, d, keys \ {key})

BodyCall ==
    /\ rule = "body" /\ pc = "call"
    /\ args' = strip_new_line_tokens(args)
    /\ attributes' = {}
    /\ result' = EmptyDict
    /\ pos' = 1
    /\ pc' = "loop"
    /\ UNCHANGED <<rule, with_meta, meta, tree, warnings, ret>>

\* Mutant: a repeated attribute overwrites the earlier value (last wins).
BodyAttributeIgnored_Overwrites ==
    /\ rule = "body" /\ pc = "loop" /\ pos <= Len(args)
    /\ args[pos].t = "attr"
    /\ args[pos].key \in DOMAIN result
    /\ warnings' = Append(warnings, [where |-> "attribute", key |-> args[pos].key])
    /\ result' = DictSet(result, args[pos].key, args[pos].value)
    /\ pos' = pos + 1
    /\ UNCHANGED <<rule, with_meta, meta, tree, args, pc, attributes, ret>>

BodyAttributeIgnored ==
    /\ rule = "body" /\ pc = "loop" /\ pos <= Len(args)
    /\ args[pos].t = "attr"
    /\ args[pos].key \in DOMAIN result
    /\ warnings' = Append(warnings, [where |-> "attribute", key |-> args[pos].key])
    /\ pos' = pos + 1
    /\ UNCHANGED <<rule, with_meta, meta, tree, args, pc, result, attributes, ret>>

\* Mutant: the duplicate test looks at the attributes set, not at result.
BodyAttributeSet_ChecksAttributes ==
    /\ rule = "body" /\ pc = "loop" /\ pos <= Len(args)
    /\ args[pos].t = "attr"
    /\ args[pos].key \notin attributes
    /\ result' = DictSet(result, args[pos].key, args[pos].value)
    /\ attributes' = attributes \cup {args[pos].key}
    /\ pos' = pos + 1
    /\ UNCHANGED <<rule, with_meta, meta, tree, args, pc, warnings, ret>>

BodyAttributeSet ==
    /\ rule = "body" /\ pc = "loop" /\ pos <= Len(args)
    /\ args[pos].t = "attr"
    /\ args[pos].key \notin DOMAIN result
    /\ result' = DictSet(result, args[pos].key, args[pos].value)
    /\ attributes' = attributes \cup {args[pos].key}
    /\ pos' = pos + 1
    /\ UNCHANGED <<rule, with_meta, meta, tree, args, pc, warnings, ret>>

BodyBlock ==
    /\ rule = "body" /\ pc = "loop" /\ pos <= Len(args)
    /\ args[pos].t # "attr"
    /\ LET st == MergeItems([result |-> result, warnings |-> warnings],
                            attributes, args[pos].v, DOMAIN args[pos].v)
       IN /\ result' = st.result
          /\ warnings' = st.warnings
    /\ pos' = pos + 1
    /\ UNCHANGED <<rule, with_meta, meta, tree, args, pc, attributes, ret>>

BodyReturn ==
    /\ rule = "body" /\ pc = "loop" /\ pos > Len(args)
    /\ ret' = DictV(result)
    /\ pc' = "done"
    /\ UNCHANGED <<rule, with_meta, meta, tree, args, pos, result, attributes, warnings>>

---------------------------------------------------------------------------
(* Inputs of body(): children as the callbacks below it return them *)

KeyA == <<"a">>
KeyB == <<"b">>
KeyC == <<"c">>
Quoted(s) == <<Quote>> \o s \o <<Quote>>

\* attribute children: identifier key, int literal or quoted string value
AttributeChildren ==
    { attribute(<<StrV(k), val>>) :
        k \in {KeyA, KeyB}, val \in {IntV(1), StrV(Quoted(<<"x">>))} }

\* a block's own body: the dict an inner body() returned
InnerBody == DictV([k \in {<<"x">>} |-> IntV(1)])

\* block children: what block() returned for a block with its type and labels
BlockChildren(wm) ==
    { block(wm, [line |-> 3, end_line |-> 7], ls \o <<InnerBody>>) :
        ls \in { l \in { <<StrV(KeyA)>>, <<StrV(KeyA), StrV(Quoted(<<"l">>))>>,
                   <<StrV(KeyB)>>, <<StrV(KeyC)>> } : Len(l) <= MaxLabels } }

BodyChildren(wm) == AttributeChildren \cup BlockChildren(wm) \cup {NewLine}

SeqsUpTo(S, n) == UNION { [1..m -> S] : m \in 0..n }

Init_Body ==
    /\ rule = "body"
    /\ with_meta \in BOOLEAN
    /\ meta = NoMeta
    /\ tree = None
    /\ args \in SeqsUpTo(BodyChildren(with_meta), MaxChildren)
    /\ pc = "call"
    /\ pos = 0
    /\ result = EmptyDict
    /\ attributes = {}
    /\ warnings = <<>>
    /\ ret = None

Next_Body ==
    \/ BodyCall
    \/ BodyAttributeIgnored
    \/ BodyAttributeSet
    \/ BodyBlock
    \/ BodyReturn

Spec_Body == Init_Body /\ [][Next_Body]_vars


---------------------------------------------------------------------------
(* body: the children processed so far *)

InBody == rule = "body" /\ pc \in {"loop", "done"}
Processed == 1..(pos - 1)
AttrDecls(k) == { j \in Processed : args[j].t = "attr" /\ args[j].key = k }
BlockDecls(k) == { j \in Processed : args[j].t = "dict" /\ k \in DOMAIN args[j].v }
Carriers(k) == AttrDecls(k) \cup BlockDecls(k)
SeenKeys == { k \in {KeyA, KeyB, KeyC} : Carriers(k) # {} }
Min(S) == CHOOSE m \in S : \A n \in S : m <= n
WarningCount(w, k) ==
    Cardinality({ i \in DOMAIN warnings : warnings[i] = [where |-> w, key |-> k] })
FirstIsAttribute(k) == Carriers(k) # {} /\ args[Min(Carriers(k))].t = "attr"
FirstIsBlock(k) == Carriers(k) # {} /\ args[Min(Carriers(k))].t = "dict"

\* the values the block children in S carry at key k, in source order
RECURSIVE BlockValues(_, _)
BlockValues(k, S) ==
    IF S = {} THEN <<>>
    ELSE <<args[Min(S)].v[k]>> \o BlockValues(k, S \ {Min(S)})

\* C1: a key first set by an Attribute keeps the first declaration's value;
\* every later Attribute with that key is dropped with exactly one warning
\* (k declarations give k-1 warnings) and the walk goes on to the next child.
C1_FirstAttributeWins ==
    InBody =>
        \A k \in SeenKeys :
            FirstIsAttribute(k) =>
                /\ k \in DOMAIN result
                /\ result[k] = args[Min(AttrDecls(k))].value
                /\ WarningCount("attribute", k) = Cardinality(AttrDecls(k)) - 1

C1_Witness ==
    /\ rule = "body" /\ pc = "done"
    /\ \E k \in SeenKeys :
          /\ FirstIsAttribute(k)
          /\ Cardinality(AttrDecls(k)) = 3
          /\ \E j \in AttrDecls(k) : args[j].value # result[k]
          /\ WarningCount("attribute", k) = 2

\* C2: at every prefix of the children each key of result is of one kind,
\* that of the first child that carried it.  An attribute key holds that
\* attribute's value and every block entry with the key was dropped with a
\* warning; a block key holds a list and every Attribute with the key was
\* dropped.  A step never changes the kind of a key already in result.
C2_KindOfFirstCarrier ==
    InBody =>
        /\ DOMAIN result = SeenKeys
        /\ \A k \in SeenKeys :
              /\ FirstIsAttribute(k) =>
                    /\ k \in attributes
                    /\ result[k] = args[Min(Carriers(k))].value
                    /\ WarningCount("block", k) = Cardinality(BlockDecls(k))
              /\ FirstIsBlock(k) =>
                    /\ k \notin attributes
                    /\ result[k].t = "list"
                    /\ \A i \in DOMAIN result[k].v :
                          \E j \in BlockDecls(k) : result[k].v[i] = args[j].v[k]
                    /\ WarningCount("attribute", k) = Cardinality(AttrDecls(k))

C2_KindNeverChanges ==
    \A k \in DOMAIN result :
        /\ k \in DOMAIN result'
        /\ (k \in attributes) = (k \in attributes')
        /\ (result[k].t = "list") = (result'[k].t = "list")

C2_MutuallyExclusive == [](C2_KindOfFirstCarrier) /\ [][C2_KindNeverChanges]_vars

C2_Witness ==
    /\ rule = "body" /\ pc = "done"
    /\ \E k1, k2 \in SeenKeys :
          /\ FirstIsAttribute(k1) /\ BlockDecls(k1) # {}
          /\ FirstIsBlock(k2) /\ AttrDecls(k2) # {}

\* C3: a key first carried by a block holds the list of the values of all
\* block children carrying it, one element each, in source order (identical
\* blocks are both kept, none is merged or overwritten).
C3_BlocksInSourceOrder ==
    InBody =>
        \A k \in SeenKeys :
            FirstIsBlock(k) => result[k] = ListV(BlockValues(k, BlockDecls(k)))

C3_Witness ==
    /\ rule = "body" /\ pc = "done"
    /\ \E k \in SeenKeys :
          /\ FirstIsBlock(k)
          /\ Len(result[k].v) = 3
          /\ result[k].v[1] = result[k].v[2]
          /\ result[k].v[2] # result[k].v[3]
    /\ \E k \in SeenKeys : FirstIsBlock(k) /\ Len(result[k].v) = 1

AttrIndices == { j \in 1..Len(args) : args[j].t = "attr" }
DistinctAttributeKeys ==
    \A i, j \in AttrIndices : i # j => args[i].key # args[j].key
BlockBefore(j) ==
    \E i \in 1..(j - 1) : args[i].t = "dict" /\ args[j].key \in DOMAIN args[i].v

\* C4 as stated: with pairwise distinct attribute keys every attribute's key
\* holds its value in the output, whatever blocks stand among the attributes.
C4_Original ==
    (rule = "body" /\ pc = "done" /\ DistinctAttributeKeys) =>
        \A j \in AttrIndices :
            /\ args[j].key \in DOMAIN ret.v
            /\ ret.v[args[j].key] = args[j].value

\* C4 amended: with pairwise distinct attribute keys, every attribute that is
\* not preceded by a block carrying its key holds its value in the output,
\* whatever other blocks stand before, between or after the attributes; an
\* attribute preceded by a block of its own name is dropped and the key holds
\* the block list.
C4_Amended ==
    (rule = "body" /\ pc = "done" /\ DistinctAttributeKeys) =>
        \A j \in AttrIndices :
            /\ args[j].key \in DOMAIN ret.v
            /\ ~BlockBefore(j) => ret.v[args[j].key] = args[j].value
            /\ BlockBefore(j) => ret.v[args[j].key].t = "list"

C4_Witness ==
    /\ rule = "body" /\ pc = "done" /\ DistinctAttributeKeys
    /\ Cardinality(AttrIndices) = 2
    /\ \A j \in AttrIndices : ~BlockBefore(j) /\ ret.v[args[j].key] = args[j].value
    /\ \E i \in 1..Len(args) : args[i].t = "dict" /\ i < Min(AttrIndices)
    /\ \E i \in 1..Len(args) : \E j \in AttrIndices :
          args[i].t = "dict" /\ i > j /\ args[j].key \in DOMAIN args[i].v

---------------------------------------------------------------------------
(* block() on its own: labels (identifiers or quoted strings) and a body *)

Block ==
    /\ rule = "block" /\ pc = "call"
    /\ ret' = block(with_meta, meta, args)
    /\ pc' = "done"
    /\ UNCHANGED <<rule, with_meta, meta, tree, args, pos, result, attributes, warnings>>

\* labels as the parser hands them over: identifiers, quoted strings, and a
\* quoted string whose text itself starts and ends with a quote character
Labels ==
    { StrV(KeyA), StrV(KeyB), StrV(Quoted(KeyB)), StrV(Quoted(<<"l">>)),
      StrV(Quoted(Quoted(KeyA))) }

BlockBodies ==
    { DictV(EmptyDict), InnerBody,
      DictV([k \in {KeyA} |-> ListV(<<InnerBody>>)]),
      DictV([k \in {START_LINE} |-> IntV(9)]) }

Init_Block ==
    /\ rule = "block"
    /\ with_meta \in BOOLEAN
    /\ meta \in { [line |-> 3, end_line |-> 7], [line |-> 1, end_line |-> 1] }
    /\ tree = None
    /\ \E ls \in SeqsUpTo(Labels, MaxLabels) : \E b \in BlockBodies : args = ls \o <<b>>
    /\ pc = "call"
    /\ pos = 0
    /\ result = EmptyDict
    /\ attributes = {}
    /\ warnings = <<>>
    /\ ret = None

Next_Block == Block

Spec_Block == Init_Block /\ [][Next_Block]_vars

\* a label with one layer of enclosing double quotes removed
C5_Unquoted(s) ==
    IF Len(s) >= 2 /\ s[1] = Quote /\ s[Len(s)] = Quote
    THEN [i \in 1..(Len(s) - 2) |-> s[i + 1]]
    ELSE s

\* v with the label layers ls taken off from the outside, each layer being a
\* dict with the single key C5_Unquoted(label); "mismatch" if it is not
RECURSIVE C5_Peel(_, _)
C5_Peel(val, ls) ==
    IF ls = <<>> THEN val
    ELSE IF val.t = "dict" /\ DOMAIN val.v = {C5_Unquoted(Head(ls).v)}
         THEN C5_Peel(val.v[C5_Unquoted(Head(ls).v)], Tail(ls))
         ELSE [t |-> "mismatch", v |-> 0]

C5_Labels == SubSeq(args, 1, Len(args) - 1)
C5_Body == args[Len(args)]

\* C5: block([l1..lN, body]) is N nested single-key dicts, the labels in
\* source order from the outside in, each without one layer of enclosing
\* quotes, around the block's own dict: the body itself (with N = 0 the
\* return value), which in metadata mode has been given the two line keys.
C5_NestedLabels ==
    (rule = "block" /\ pc = "done") =>
        /\ C5_Peel(ret, C5_Labels).t = "dict"
        /\ LET own == C5_Peel(ret, C5_Labels).v
           IN /\ ~with_meta => own = C5_Body.v
              /\ with_meta =>
                    /\ DOMAIN own = DOMAIN C5_Body.v \cup {START_LINE, END_LINE}
                    /\ own[START_LINE] = IntV(meta.line)
                    /\ own[END_LINE] = IntV(meta.end_line)
                    /\ \A k \in DOMAIN C5_Body.v \ {START_LINE, END_LINE} :
                          own[k] = C5_Body.v[k]

C5_Witness ==
    /\ rule = "block" /\ pc = "done" /\ ~with_meta
    /\ C5_Labels = <<StrV(KeyA), StrV(Quoted(KeyB))>>
    /\ C5_Body = InnerBody
    /\ ret = DictV([k1 \in {KeyA} |-> DictV([k2 \in {KeyB} |-> InnerBody])])

---------------------------------------------------------------------------
(* The walk over a whole tree: start -> body -> (attribute | block -> body) *)

\* body() run to its return: the for loop of the actions above as a fold
RECURSIVE BodyLoop(_, _)
BodyLoop(st, as) ==
    IF as = <<>> THEN st
    ELSE LET arg == Head(as)
             nxt == IF arg.t = "attr"
                    THEN IF arg.key \in DOMAIN st.result
                         THEN [st EXCEPT !.warnings =
                                 Append(@, [where |-> "attribute", key |-> arg.key])]
                         ELSE [st EXCEPT !.result = DictSet(@, arg.key, arg.value),
                                         !.attributes = @ \cup {arg.key}]
                    ELSE LET m == MergeItems([result |-> st.result, warnings |-> st.warnings],
                                             st.attributes, arg.v, DOMAIN arg.v)
                         IN [st EXCEPT !.result = m.result, !.warnings = m.warnings]
         IN BodyLoop(nxt, Tail(as))

body(as) ==
    DictV(BodyLoop([result |-> EmptyDict, attributes |-> {}, warnings |-> <<>>],
                   strip_new_line_tokens(as)).result)

start(as) == strip_new_line_tokens(as)[1]

\* Syntax nodes: a token [t |-> "token", v |-> text], the newline token, or
\* a rule node [t |-> rule name, children |-> <<nodes>>]; a block node also
\* carries its meta (line, end_line).  The transformer visits the children
\* first and hands their results, in order, to the callback of the rule.
RECURSIVE Transform(_, _)
Transform(node, wm) ==
    IF node.t = "token" THEN StrV(node.v)
    ELSE IF node.t = "newline" THEN NewLine
    ELSE LET as == [i \in 1..Len(node.children) |-> Transform(node.children[i], wm)]
         IN CASE node.t = "start" -> start(as)
              [] node.t = "body" -> body(as)
              [] node.t = "block" ->
                   block(wm, [line |-> node.line, end_line |-> node.end_line], as)
              [] node.t = "attribute" -> attribute(as)
              [] node.t = "identifier" -> identifier(as)
              [] node.t = "int_lit" -> int_lit(as)
              [] node.t = "float_lit" -> float_lit(as)
              [] node.t = "expr_term" -> expr_term(as)
              [] node.t = "get_attr" -> get_attr(as)
              [] node.t = "get_attr_expr_term" -> get_attr_expr_term(as)
              [] node.t = "binary_operator" -> binary_operator(as)
              [] node.t = "binary_term" -> binary_term(as)
              [] node.t = "binary_op" -> binary_op(as)
              [] node.t = "conditional" -> conditional(as)
              [] node.t = "tuple" -> tuple(as)
              [] node.t = "object_elem" -> object_elem(as)
              [] node.t = "object" -> object(as)

Node(r, cs) == [t |-> r, children |-> cs]
Token(s) == [t |-> "token", v |-> s]
NewLineToken == [t |-> "newline", v |-> 0]
IdentifierNode(s) == Node("identifier", <<Token(s)>>)
StringLit(inner) == Node("expr_term", <<Token(Quoted(inner))>>)
IdentifierTerm(s) == Node("expr_term", <<IdentifierNode(s)>>)
IntTerm(s) == Node("expr_term", <<Node("int_lit", <<Token(s)>>)>>)
FloatTerm(i, f) ==
    Node("expr_term", <<Node("float_lit", <<Token(i), Token(<<".">>), Token(f)>>)>>)
BodyNode(cs) == Node("body", cs)
AttributeNode(k, e) == Node("attribute", <<IdentifierNode(k), e>>)
BlockNode(ls, b, l, e) ==
    [t |-> "block", children |-> ls \o <<b>>, line |-> l, end_line |-> e]

\* trees: a root body of attributes and blocks; a block's body holds
\* attributes (one of them may be named like a metadata key: it is an
\* ordinary identifier of the language) and a nested block
NestedBlock ==
    BlockNode(<<IdentifierNode(KeyB)>>,
              BodyNode(<<AttributeNode(<<"x">>, IntTerm(<<"1">>))>>), 4, 5)
InnerChildren ==
    { AttributeNode(<<"x">>, IntTerm(<<"1">>)),
      AttributeNode(START_LINE, IntTerm(<<"9">>)),
      NestedBlock }
InnerBodyNodes == { BodyNode(cs) : cs \in SeqsUpTo(InnerChildren, MaxInnerChildren) }
RootChildren ==
    { AttributeNode(KeyA, IntTerm(<<"1">>)) }
    \cup { BlockNode(ls, b, 3, 7) :
             ls \in { <<IdentifierNode(KeyA)>>,
                      <<IdentifierNode(KeyA), Token(Quoted(<<"l">>))>> },
             b \in InnerBodyNodes }
Trees == { Node("start", <<BodyNode(cs)>>) : cs \in SeqsUpTo(RootChildren, MaxRootChildren) }

TransformTree ==
    /\ rule = "start" /\ pc = "call"
    /\ args' = <<Transform(tree.children[1], with_meta)>>
    /\ pc' = "start"
    /\ UNCHANGED <<rule, with_meta, meta, tree, pos, result, attributes, warnings, ret>>

Start ==
    /\ rule = "start" /\ pc = "start"
    /\ ret' = start(args)
    /\ pc' = "done"
    /\ UNCHANGED <<rule, with_meta, meta, tree, args, pos, result, attributes, warnings>>

Init_Tree ==
    /\ rule = "start"
    /\ with_meta \in BOOLEAN
    /\ meta = NoMeta
    /\ tree \in Trees
    /\ args = <<>>
    /\ pc = "call"
    /\ pos = 0
    /\ result = EmptyDict
    /\ attributes = {}
    /\ warnings = <<>>
    /\ ret = None

Next_Tree == TransformTree \/ Start

Spec_Tree == Init_Tree /\ [][Next_Tree]_vars

\* on is off with nothing changed but metadata keys added to dicts
RECURSIVE C6_OnlyAdds(_, _)
C6_OnlyAdds(off, on) ==
    IF off.t = "dict" /\ on.t = "dict"
    THEN /\ DOMAIN off.v \subseteq DOMAIN on.v
         /\ (DOMAIN on.v \ DOMAIN off.v) \subseteq {START_LINE, END_LINE}
         /\ \A k \in DOMAIN off.v : C6_OnlyAdds(off.v[k], on.v[k])
    ELSE IF off.t = "list" /\ on.t = "list"
    THEN /\ Len(off.v) = Len(on.v)
         /\ \A i \in 1..Len(off.v) : C6_OnlyAdds(off.v[i], on.v[i])
    ELSE off = on

\* C6 as stated: the output with metadata mode on is the output with
\* metadata mode off, except that dicts have gained the two line keys.
C6_MetadataOnlyAdds ==
    (rule = "start" /\ pc = "done" /\ with_meta) =>
        C6_OnlyAdds(Transform(tree, FALSE), ret)

\* Where C6 does hold: on the trees in which no attribute is itself named
\* __start_line__ or __end_line__, metadata mode only adds keys.
RECURSIVE C6_HasMetaNamedAttribute(_)
C6_HasMetaNamedAttribute(node) ==
    IF node.t \in {"token", "newline"} THEN FALSE
    ELSE \/ /\ node.t = "attribute"
            /\ node.children[1].children[1].v \in {START_LINE, END_LINE}
         \/ \E i \in 1..Len(node.children) : C6_HasMetaNamedAttribute(node.children[i])

C6_HoldsWithoutClash ==
    (rule = "start" /\ pc = "done" /\ with_meta /\ ~C6_HasMetaNamedAttribute(tree)) =>
        C6_OnlyAdds(Transform(tree, FALSE), ret)


---------------------------------------------------------------------------
(* The three sites of to_string_dollar: attribute, tuple, object_elem *)

InnerAlphabet == {"a", "$", "{", "}"}
StringLits == { StringLit(inner) : inner \in SeqsUpTo(InnerAlphabet, MaxInner) }

Operands == { StringLit(<<"a">>), StringLit(<<>>), IdentifierTerm(<<"a">>), IntTerm(<<"1">>) }
BinaryOps ==
    { Node("binary_op",
           <<l, Node("binary_term", <<Node("binary_operator", <<Token(<<"=", "=">>)>>), r>>)>>) :
        l \in Operands, r \in Operands }
Conditionals ==
    { Node("conditional", <<c, NewLineToken, x, y>>) :
        c \in {StringLit(<<"a">>), IdentifierTerm(<<"a">>)},
        x \in {StringLit(<<"a">>), IdentifierTerm(<<"a">>)},
        y \in {StringLit(<<"a">>), IdentifierTerm(<<"a">>)} }
GetAttr ==
    Node("expr_term",
         <<Node("get_attr_expr_term",
                <<IdentifierTerm(<<"a">>), Node("get_attr", <<IdentifierNode(<<"b">>)>>)>>)>>)
Keywords ==
    { IdentifierTerm(<<"t", "r", "u", "e">>), IdentifierTerm(<<"f", "a", "l", "s", "e">>),
      IdentifierTerm(<<"n", "u", "l", "l">>) }
Parenthesized == Node("expr_term", <<Token(<<"(">>), NewLineToken, IdentifierTerm(<<"a">>), Token(<<")">>)>>)
Collections ==
    { Node("expr_term", <<Node("tuple", <<StringLit(<<"a">>), IdentifierTerm(<<"a">>)>>)>>),
      Node("expr_term",
           <<Node("object", <<Node("object_elem", <<IdentifierNode(<<"a">>), IntTerm(<<"1">>)>>)>>)>>) }

Expressions ==
    StringLits
    \cup {IdentifierTerm(<<"a">>), IntTerm(<<"1">>), FloatTerm(<<"1">>, <<"5", "0">>),
          GetAttr, Parenthesized}
    \cup Keywords \cup BinaryOps \cup Conditionals \cup Collections

SiteNodes ==
    { AttributeNode(<<"x">>, e) : e \in Expressions }
    \cup { Node("tuple", <<e, NewLineToken, GetAttr>>) : e \in Expressions }
    \cup { Node("object_elem", <<Token(Quoted(<<"x">>)), e>>) : e \in Expressions }

AttributeCall ==
    /\ rule = "attribute" /\ pc = "call"
    /\ ret' = attribute(args)
    /\ pc' = "done"
    /\ UNCHANGED <<rule, with_meta, meta, tree, args, pos, result, attributes, warnings>>

TupleCall ==
    /\ rule = "tuple" /\ pc = "call"
    /\ ret' = tuple(args)
    /\ pc' = "done"
    /\ UNCHANGED <<rule, with_meta, meta, tree, args, pos, result, attributes, warnings>>

ObjectElemCall ==
    /\ rule = "object_elem" /\ pc = "call"
    /\ ret' = object_elem(args)
    /\ pc' = "done"
    /\ UNCHANGED <<rule, with_meta, meta, tree, args, pos, result, attributes, warnings>>

Init_Site ==
    /\ with_meta = FALSE
    /\ meta = NoMeta
    /\ tree \in SiteNodes
    /\ rule = tree.t
    /\ args = [i \in 1..Len(tree.children) |-> Transform(tree.children[i], FALSE)]
    /\ pc = "call"
    /\ pos = 0
    /\ result = EmptyDict
    /\ attributes = {}
    /\ warnings = <<>>
    /\ ret = None

Next_Site == AttributeCall \/ TupleCall \/ ObjectElemCall

Spec_Site == Init_Site /\ [][Next_Site]_vars

\* the positions in args of the values the site passes to to_string_dollar,
\* and the value the site put in its return value for position i
SiteInputs ==
    IF rule = "tuple" THEN { i \in 1..Len(args) : args[i].t # "newline" } ELSE {2}
SiteOutput(i) ==
    CASE rule = "attribute" -> ret.value
      [] rule = "tuple" -> ret.v[Cardinality({ j \in SiteInputs : j <= i })]
      [] rule = "object_elem" -> ret.v[CHOOSE k \in DOMAIN ret.v : TRUE]

C7_Rule(val, out) ==
    IF val.t = "str"
    THEN IF Len(val.v) > 0 /\ val.v[1] = Quote /\ val.v[Len(val.v)] = Quote
         THEN out.t = "str" /\ val.v = <<Quote>> \o out.v \o <<Quote>>
         ELSE out = StrV(<<"$", "{">> \o val.v \o <<"}">>)
    ELSE out = val

\* C7: at every attribute value, tuple element and object-element value the
\* output is the input without one leading and one trailing double quote when
\* the input is a string that starts and ends with a double quote, "${" +
\* input + "}" for any other string, and the input itself when it is no string.
C7_ToStringDollar ==
    (rule \in {"attribute", "tuple", "object_elem"} /\ pc = "done") =>
        \A i \in SiteInputs : C7_Rule(args[i], SiteOutput(i))

C7_Witness ==
    /\ rule = "tuple" /\ pc = "done"
    /\ args[1] = StrV(Quoted(<<"a">>))
    /\ ret = ListV(<<StrV(<<"a">>), StrV(<<"$", "{", "a", ".", "b", "}">>)>>)

C7_WitnessNonString ==
    /\ rule = "attribute" /\ pc = "done"
    /\ args[2] = FloatV(3, 2)
    /\ ret.value = args[2]

\* the syntax node of the value at position i, and whether it is a quoted
\* string literal (the STRING_LIT token) rather than a reconstructed expression
SiteNode(i) == tree.children[i]
IsStringLiteral(n) ==
    n.t = "expr_term" /\ Len(n.children) = 1 /\ n.children[1].t = "token"
HasWrapper(s) == Len(s) >= 3 /\ s[1] = "$" /\ s[2] = "{" /\ s[Len(s)] = "}"

\* C8 as stated: a string output carries the ${...} wrapper if and only if
\* the input was an expression fragment and not a quoted string literal.
C8_WrapperIffExpression ==
    (rule \in {"attribute", "tuple", "object_elem"} /\ pc = "done") =>
        \A i \in SiteInputs :
            args[i].t = "str" =>
                (HasWrapper(SiteOutput(i).v) <=> ~IsStringLiteral(SiteNode(i)))

\* the two halves of C8, each refuted on its own
C8_ExpressionIsWrapped ==
    (rule \in {"attribute", "tuple", "object_elem"} /\ pc = "done") =>
        \A i \in SiteInputs :
            (args[i].t = "str" /\ ~IsStringLiteral(SiteNode(i)))
                => HasWrapper(SiteOutput(i).v)

C8_LiteralIsNotWrapped ==
    (rule \in {"attribute", "tuple", "object_elem"} /\ pc = "done") =>
        \A i \in SiteInputs :
            (args[i].t = "str" /\ IsStringLiteral(SiteNode(i)))
                => ~HasWrapper(SiteOutput(i).v)

---------------------------------------------------------------------------
(* object: the walk visits the object_elem children, then calls object() *)

ObjectVisitChild ==
    /\ rule = "object" /\ pc = "children" /\ pos <= Len(tree.children)
    /\ args' = Append(args, Transform(tree.children[pos], with_meta))
    /\ pos' = pos + 1
    /\ UNCHANGED <<rule, with_meta, meta, tree, pc, result, attributes, warnings, ret>>

ObjectCall ==
    /\ rule = "object" /\ pc = "children" /\ pos > Len(tree.children)
    /\ ret' = object(args)
    /\ pc' = "done"
    /\ UNCHANGED <<rule, with_meta, meta, tree, args, pos, result, attributes, warnings>>

ObjectElems ==
    { Node("object_elem", <<k, e>>) :
        k \in { IdentifierNode(KeyA), StringLit(KeyA), IdentifierNode(KeyB) },
        e \in { IntTerm(<<"1">>), IntTerm(<<"2">>), StringLit(<<"x">>) } }

Init_Object ==
    /\ rule = "object"
    /\ with_meta = FALSE
    /\ meta = NoMeta
    /\ \E cs \in SeqsUpTo(ObjectElems \cup {NewLineToken}, MaxElems) : tree = Node("object", cs)
    /\ args = <<>>
    /\ pc = "children"
    /\ pos = 1
    /\ result = EmptyDict
    /\ attributes = {}
    /\ warnings = <<>>
    /\ ret = None

Next_Object == ObjectVisitChild \/ ObjectCall

Spec_Object == Init_Object /\ [][Next_Object]_vars

\* the object_elem children, and the key of child i as written, without one
\* layer of enclosing quotes
C10_Elems == { i \in 1..Len(tree.children) : tree.children[i].t = "object_elem" }
C10_Key(i) == C5_Unquoted(tree.children[i].children[1].children[1].v)
C10_Last(k) == CHOOSE i \in C10_Elems :
                  /\ C10_Key(i) = k
                  /\ \A j \in C10_Elems : C10_Key(j) = k => j <= i

\* C10: object() holds every key of its elements (compared without one layer
\* of enclosing quotes) with the value of the last element, in source order,
\* that carries the key; no warning is logged.
C10_LastWins ==
    (rule = "object" /\ pc = "done") =>
        /\ DOMAIN ret.v = { C10_Key(i) : i \in C10_Elems }
        /\ \A k \in DOMAIN ret.v : ret.v[k] = args[C10_Last(k)].v[k]
        /\ warnings = <<>>

C10_Witness ==
    /\ rule = "object" /\ pc = "done"
    /\ tree.children = << Node("object_elem", <<IdentifierNode(KeyA), IntTerm(<<"1">>)>>),
                          Node("object_elem", <<StringLit(KeyA), IntTerm(<<"2">>)>>) >>
    /\ ret = DictV([k \in {KeyA} |-> IntV(2)])

---------------------------------------------------------------------------
(* heredoc_template_trim *)

TrimChars == {"\n", "\t", " "}
Letters == {"E", "O", "F", "a"}      \* the letters of the texts drawn below
NameChars == Letters \cup {"0", "1", "2", "3", "4", "5", "6", "7", "8", "9", ".", "_", "-"}

\* HEREDOC_TRIM_PATTERN.match(text): "<<-", group 1 = a letter and one or
\* more name characters up to a newline, group 2 = as much text as leaves a
\* repetition of group 1 behind it (the match is greedy).
HeredocTrimMatch(text) ==
    LET n == Len(text)
        stops == { i \in 4..n : text[i] \notin NameChars }
        nl == IF stops = {} THEN n + 1 ELSE CHOOSE i \in stops : \A j \in stops : i <= j
        g1 == SubSeq(text, 4, nl - 1)
        head == /\ n >= 3 /\ text[1] = "<" /\ text[2] = "<" /\ text[3] = "-"
                /\ nl <= n /\ text[nl] = "\n"
                /\ Len(g1) >= 2 /\ g1[1] \in Letters
        ends == { q \in (nl + 1)..(n - Len(g1) + 1) : SubSeq(text, q, q + Len(g1) - 1) = g1 }
        last == CHOOSE q \in ends : \A r \in ends : r <= q
    IN IF head /\ ends # {}
       THEN [matched |-> TRUE, group1 |-> g1, group2 |-> SubSeq(text, nl + 1, last - 1)]
       ELSE [matched |-> FALSE, group1 |-> <<>>, group2 |-> <<>>]

\* s.rstrip(chars)
RECURSIVE RStrip(_, _)
RStrip(s, chars) ==
    IF s # <<>> /\ s[Len(s)] \in chars THEN RStrip(SubSeq(s, 1, Len(s) - 1), chars) ELSE s

\* s.split("\n")
RECURSIVE Split(_)
Split(s) ==
    LET nls == { i \in 1..Len(s) : s[i] = "\n" }
    IN IF nls = {} THEN <<s>>
       ELSE LET i == CHOOSE x \in nls : \A y \in nls : x <= y
            IN <<SubSeq(s, 1, i - 1)>> \o Split(SubSeq(s, i + 1, Len(s)))

\* Mutant: tabs are counted as leading blanks too (line.lstrip()).
RECURSIVE LeadingSpaces_AnyBlank(_)
LeadingSpaces_AnyBlank(line) ==
    IF line # <<>> /\ line[1] \in {" ", "\t"}
    THEN 1 + LeadingSpaces_AnyBlank(Tail(line)) ELSE 0

\* len(line) - len(line.lstrip(" "))
RECURSIVE LeadingSpaces(_)
LeadingSpaces(line) ==
    IF line # <<>> /\ line[1] = " " THEN 1 + LeadingSpaces(Tail(line)) ELSE 0

MinSpaces(lines) ==
    CHOOSE m \in { LeadingSpaces(lines[i]) : i \in 1..Len(lines) } :
        \A i \in 1..Len(lines) : m <= LeadingSpaces(lines[i])

heredoc_template_trim(as) ==
    LET match == HeredocTrimMatch(ToText(as[1]))
        text == RStrip(match.group2, TrimChars)
        lines == Split(text)
        min_spaces == MinSpaces(lines)
        trimmed == [i \in 1..Len(lines) |-> SubSeq(lines[i], min_spaces + 1, Len(lines[i]))]
    IN IF ~match.matched THEN [t |-> "RuntimeError", v |-> ToText(as[1])]
       ELSE StrV(Quoted(Join(<<"\n">>, trimmed)))

HeredocTemplateTrim ==
    /\ rule = "heredoc_template_trim" /\ pc = "call"
    /\ ret' = heredoc_template_trim(args)
    /\ pc' = IF ret'.t = "RuntimeError" THEN "raised" ELSE "done"
    /\ UNCHANGED <<rule, with_meta, meta, tree, args, pos, result, attributes, warnings>>

\* heredoc tokens as the lexer cuts them: "<<-" DELIM newline body DELIM, the
\* body being indented lines and the blanks before the closing delimiter
Delimiter == <<"E", "O", "F">>
Indents == SeqsUpTo({" ", "\t"}, MaxIndent)
HeredocLines == { ind \o c : ind \in Indents, c \in { <<>>, <<"a">> } }
Closings == { <<>>, <<"\n">>, <<"\n", " ", " ">> }
HeredocBodies ==
    { Join(<<"\n">>, ls) \o c : ls \in SeqsUpTo(HeredocLines, MaxLines), c \in Closings }
HeredocToken(b) ==
    [t |-> "token", v |-> <<"<", "<", "-">> \o Delimiter \o <<"\n">> \o b \o Delimiter,
     body |-> b]

Init_Heredoc ==
    /\ rule = "heredoc_template_trim"
    /\ with_meta = FALSE
    /\ meta = NoMeta
    /\ \E b \in HeredocBodies : tree = HeredocToken(b)
    /\ args = <<Transform(tree, FALSE)>>
    /\ pc = "call"
    /\ pos = 0
    /\ result = EmptyDict
    /\ attributes = {}
    /\ warnings = <<>>
    /\ ret = None

Next_Heredoc == HeredocTemplateTrim

Spec_Heredoc == Init_Heredoc /\ [][Next_Heredoc]_vars

\* the body without its trailing newlines, tabs and spaces
C9_Stripped(b) ==
    LET n == CHOOSE k \in 0..Len(b) :
                 /\ k = 0 \/ b[k] \notin {"\n", "\t", " "}
                 /\ \A i \in (k + 1)..Len(b) : b[i] \in {"\n", "\t", " "}
    IN [i \in 1..n |-> b[i]]

\* the lines of s: the stretches between its newline characters
C9_Cuts(s) == {0, Len(s) + 1} \cup { i \in 1..Len(s) : s[i] = "\n" }
C9_Line(s, p) ==
    LET q == CHOOSE c \in C9_Cuts(s) : c > p /\ \A d \in C9_Cuts(s) : d > p => c <= d
    IN [i \in 1..(q - p - 1) |-> s[p + i]]
C9_Starts(s) == C9_Cuts(s) \ {Len(s) + 1}
\* the number of leading space characters of a line (a tab is none)
C9_Lead(l) == Cardinality({ i \in 1..Len(l) : \A j \in 1..i : l[j] = " " })
C9_Spaces(m) == [i \in 1..m |-> " "]

\* C9: the result is, inside one pair of double quotes, the stripped body
\* with the same number of lines, every line without its first m characters,
\* m being the least number of leading spaces of any line (blank lines
\* included, tabs counting as none); those m characters are spaces, so the
\* relative indentation is kept, and some output line has no leading space.
C9_Dedent ==
    (rule = "heredoc_template_trim" /\ pc \in {"done", "raised"}) =>
        /\ pc = "done" /\ ret.t = "str"
        /\ Len(ret.v) >= 2 /\ ret.v[1] = Quote /\ ret.v[Len(ret.v)] = Quote
        /\ LET in == C9_Stripped(tree.body)
               out == [i \in 1..(Len(ret.v) - 2) |-> ret.v[i + 1]]
               m == CHOOSE k \in { C9_Lead(C9_Line(in, p)) : p \in C9_Starts(in) } :
                        \A p \in C9_Starts(in) : k <= C9_Lead(C9_Line(in, p))
           IN /\ Cardinality(C9_Starts(out)) = Cardinality(C9_Starts(in))
              /\ \A p \in C9_Starts(in) :
                    \E q \in C9_Starts(out) :
                        /\ Cardinality({ c \in C9_Starts(out) : c < q })
                             = Cardinality({ c \in C9_Starts(in) : c < p })
                        /\ C9_Line(in, p) = C9_Spaces(m) \o C9_Line(out, q)
              /\ \E q \in C9_Starts(out) : C9_Lead(C9_Line(out, q)) = 0

C9_Witness ==
    /\ rule = "heredoc_template_trim" /\ pc = "done"
    /\ tree.body = <<" ", " ", "a", "\n", " ", " ", "a", "\n">>
    /\ ret = StrV(<<Quote, "a", "\n", "a", Quote>>)

C9_WitnessTab ==
    /\ rule = "heredoc_template_trim" /\ pc = "done"
    /\ tree.body = <<" ", " ", "a", "\n", "\t", " ", "a", "\n">>
    /\ ret = StrV(<<Quote, " ", " ", "a", "\n", "\t", " ", "a", Quote>>)

=============================================================================
